---- MODULE Spec2Model ----
(***************************************************************************)
(* Camoco Ontology (camoco/Ontology.py): the term / term-locus store kept  *)
(* in two SQLite relations behind one apsw connection, and the write       *)
(* operations add_term, del_term, add_terms, del_terms with their          *)
(* BEGIN TRANSACTION / END TRANSACTION statements.                         *)
(*                                                                         *)
(* The connection (self.db) is modelled by what the code relies on:        *)
(*   - every cursor of self.db shares the connection's one transaction;    *)
(*   - BEGIN TRANSACTION inside an open transaction raises SQLError        *)
(*     ("cannot start a transaction within a transaction") and changes     *)
(*     nothing;                                                            *)
(*   - INSERT OR ABORT that hits the UNIQUE constraint of terms.id raises  *)
(*     ConstraintError, undoes that one statement and leaves the           *)
(*     transaction open;                                                   *)
(*   - an exception leaves the method at once; Ontology.py has no          *)
(*     try/finally and no ROLLBACK, so nothing after the raising           *)
(*     statement runs;                                                     *)
(*   - reads through self.db.cursor() see the connection's uncommitted     *)
(*     rows.                                                               *)
(***************************************************************************)
EXTENDS Integers, Sequences, FiniteSets, TLC

\* ------------------------------------------------------------------ bounds
\* longest term.loci handed to add_term
MaxLoci == 2
\* longest iterable handed to add_terms / del_terms
MaxBatch == 2

\* ------------------------------------------------------------- input sets
TermIds == {"t1", "t2"}
Descs == {"d1", "d2"}
LocusIds == {"g1", "g2"}
\* ids the Ontology's reference genome resolves; "g2" is a locus id that is
\* orphaned relative to it
RefGenIds == {"g1"}

\* Locus value object: only its id is read by Ontology.py (locus.id)
Locus(g) == [id |-> g]
Loci == {Locus(g) : g \in LocusIds}

SeqsUpTo(S, n) == UNION {[1..k -> S] : k \in 0..n}

\* Term(id, desc=..., loci=[...])
Term(i, d, l) == [id |-> i, desc |-> d, loci |-> l]
Terms == {Term(i, d, l) : i \in TermIds, d \in Descs, l \in SeqsUpTo(Loci, MaxLoci)}
NoTerm == Term("", "", <<>>)
\* terms handed to add_terms: those of one description and at most one locus
BatchTerms == {t \in Terms : t.desc = "d1" /\ Len(t.loci) <= 1}

\* exceptions that leave a method, by the name the backend raises them with
OK == "ok"
SQLError == "SQLError"
ConstraintError == "ConstraintError"
BackendError == "BackendError"
TypeError == "TypeError"
NotFound == "NotFound"

VARIABLES
    terms,      \* relation terms(id UNIQUE, desc), rows in storage order
    term_loci,  \* relation term_loci(term, id), rows in storage order
    txn,        \* "none", or who executed the BEGIN of the open transaction
    last,       \* the call that just returned and how it ended, or Ready
    pre         \* the connection's view when that call was made

vars == <<terms, term_loci, txn, last, pre>>

\* the connection's view as one value
DB(t, tl, x) == [terms |-> t, term_loci |-> tl, txn |-> x]
Res(db, err) == [db |-> db, err |-> err]

\* ------------------------------------------------------------ SQL helpers
\* cur.execute('BEGIN TRANSACTION') by `who`
Begin(db, who) ==
    IF db.txn # "none" THEN Res(db, SQLError)
    ELSE Res([db EXCEPT !.txn = who], OK)

\* cur.execute('END TRANSACTION')
End(db) ==
    IF db.txn = "none" THEN Res(db, SQLError)
    ELSE Res([db EXCEPT !.txn = "none"], OK)

\* `if not cursor:` in front of BEGIN TRANSACTION
OpensTransaction(cursor) == ~cursor

\* faulty variant: END TRANSACTION also when a cursor was handed in
EndsAnyTransaction(cursor) == TRUE

\* `if not cursor:` in front of END TRANSACTION
ClosesTransaction(cursor) == ~cursor

HasTerm(db, id) == \E k \in 1..Len(db.terms) : db.terms[k].id = id

\* faulty variant: terms.id without its UNIQUE constraint
InsertTermNoUnique(db, id, desc) ==
    Res([db EXCEPT !.terms = Append(@, [id |-> id, desc |-> desc])], OK)

\* INSERT OR ABORT INTO terms (id, desc) VALUES (?, ?), with terms.id UNIQUE
InsertTerm(db, id, desc) ==
    IF HasTerm(db, id) THEN Res(db, ConstraintError)
    ELSE Res([db EXCEPT !.terms = Append(@, [id |-> id, desc |-> desc])], OK)

\* faulty variant: the loop over term.loci stops one locus early
InsertLociButLast(db, id, loci, n) ==
    [db EXCEPT !.term_loci =
        @ \o [k \in 1..(IF n = Len(loci) /\ n > 0 THEN n - 1 ELSE n) |->
                 [term |-> id, id |-> loci[k].id]]]

\* the first n rounds of `for locus in term.loci:`
\* INSERT OR ABORT INTO term_loci (term, id) VALUES (term.id, locus.id)
InsertLoci(db, id, loci, n) ==
    [db EXCEPT !.term_loci = @ \o [k \in 1..n |-> [term |-> id, id |-> loci[k].id]]]

\* faulty variant: del_term without its DELETE FROM term_loci
DeleteLociNone(db, id) == db

\* DELETE FROM term_loci WHERE term = ?
DeleteLoci(db, id) ==
    [db EXCEPT !.term_loci = SelectSeq(@, LAMBDA r : r.term # id)]

\* DELETE FROM terms WHERE id = ?
DeleteTerm(db, id) ==
    [db EXCEPT !.terms = SelectSeq(@, LAMBDA r : r.id # id)]

\* -------------------------------------------------------------- del_term
\* term is the id (`id = term.id` or `id = term`); fault = k > 0: the k-th
\* DELETE statement raises a backend error, 0: none does
del_term(db, id, cursor, fault) ==
    LET b  == IF OpensTransaction(cursor) THEN Begin(db, "del_term") ELSE Res(db, OK)
        d1 == DeleteLoci(b.db, id)
        d2 == DeleteTerm(d1, id)
    IN  IF b.err # OK THEN b
        ELSE IF fault = 1 THEN Res(b.db, BackendError)
        ELSE IF fault = 2 THEN Res(d1, BackendError)
        ELSE IF ClosesTransaction(cursor) THEN End(d2)
        ELSE Res(d2, OK)

\* -------------------------------------------------------------- add_term
\* statements add_term runs after its BEGIN: the descriptor INSERT, one
\* INSERT per locus, and END TRANSACTION when it opened the transaction
NumStatements(term, cursor) == Len(term.loci) + (IF cursor THEN 1 ELSE 2)

\* fault = k > 0: the k-th of these statements raises a backend error
add_term(db, term, cursor, overwrite, fault) ==
    LET d == IF overwrite THEN del_term(db, term.id, FALSE, 0) ELSE Res(db, OK)
        b == IF OpensTransaction(cursor) THEN Begin(d.db, "add_term") ELSE Res(d.db, OK)
        i == InsertTerm(b.db, term.id, term.desc)
        n == Len(term.loci)
    IN  IF d.err # OK THEN d
        ELSE IF b.err # OK THEN b
        ELSE IF fault = 1 THEN Res(b.db, BackendError)
        ELSE IF i.err # OK THEN i
        ELSE IF fault \in 2..(n + 1)
             THEN Res(InsertLoci(i.db, term.id, term.loci, fault - 2), BackendError)
        ELSE LET full == InsertLoci(i.db, term.id, term.loci, n)
             IN  IF ~ClosesTransaction(cursor) THEN Res(full, OK)
                 ELSE IF fault = n + 2 THEN Res(full, BackendError)
                 ELSE End(full)

\* ------------------------------------------------- del_terms / add_terms
\* `for term in terms: self.del_term(term, cursor=cur)` from the k-th on
RECURSIVE DelAll(_, _, _)
DelAll(db, ids, k) ==
    IF k > Len(ids) THEN Res(db, OK)
    ELSE LET r == del_term(db, ids[k], TRUE, 0)
         IN  IF r.err # OK THEN r ELSE DelAll(r.db, ids, k + 1)

\* ids: the ids of the Term objects handed in (del_term reads term.id only)
del_terms(db, ids) ==
    LET b == Begin(db, "del_terms")
        a == DelAll(b.db, ids, 1)
    IN  IF b.err # OK THEN b
        ELSE IF a.err # OK THEN a
        ELSE End(a.db)

\* `for term in terms: self.add_term(term, cursor=cur, overwrite=False)`
RECURSIVE AddAll(_, _, _)
AddAll(db, ts, k) ==
    IF k > Len(ts) THEN Res(db, OK)
    ELSE LET r == add_term(db, ts[k], TRUE, FALSE, 0)
         IN  IF r.err # OK THEN r ELSE AddAll(r.db, ts, k + 1)

IdsOf(ts) == [k \in 1..Len(ts) |-> ts[k].id]

\* faulty variant: one pass, each term deleted right before it is inserted
RECURSIVE ReplaceAll(_, _, _, _)
ReplaceAll(db, ts, overwrite, k) ==
    IF k > Len(ts) THEN Res(db, OK)
    ELSE LET d == IF overwrite THEN del_term(db, ts[k].id, TRUE, 0) ELSE Res(db, OK)
             r == add_term(d.db, ts[k], TRUE, FALSE, 0)
         IN  IF r.err # OK THEN r ELSE ReplaceAll(r.db, ts, overwrite, k + 1)

add_terms_interleaved(db, ts, overwrite) ==
    LET b == Begin(db, "add_terms")
        a == ReplaceAll(b.db, ts, overwrite, 1)
    IN  IF b.err # OK THEN b
        ELSE IF a.err # OK THEN a
        ELSE End(a.db)

add_terms(db, ts, overwrite) ==
    LET d == IF overwrite THEN del_terms(db, IdsOf(ts)) ELSE Res(db, OK)
        b == Begin(d.db, "add_terms")
        a == AddAll(b.db, ts, 1)
    IN  IF d.err # OK THEN d
        ELSE IF b.err # OK THEN b
        ELSE IF a.err # OK THEN a
        ELSE End(a.db)

\* ----------------------------------------------------------------- reads
\* LocusResolver.resolve(id): the Locus of that id; NotFound if unknown
Resolvable(rg, g) == g \in rg
Resolve(g) == Locus(g)

GetResult(err, term) == [err |-> err, term |-> term]

\* __getitem__: fetchone() of the descriptor, then one resolve per
\* association row; unpacking a missing row raises TypeError
getitem(db, rg, id) ==
    LET rows  == SelectSeq(db.terms, LAMBDA r : r.id = id)
        lrows == SelectSeq(db.term_loci, LAMBDA r : r.term = id)
    IN  IF rows = <<>> THEN GetResult(TypeError, NoTerm)
        ELSE IF \E k \in 1..Len(lrows) : ~Resolvable(rg, lrows[k].id)
             THEN GetResult(NotFound, NoTerm)
        ELSE GetResult(OK, Term(rows[1].id, rows[1].desc,
                                [k \in 1..Len(lrows) |-> Resolve(lrows[k].id)]))

\* __len__: SELECT COUNT(*) FROM terms
len(db) == Len(db.terms)

\* COUNT(DISTINCT(id)) over rows: a row counts when no earlier row has its id
RECURSIVE CountDistinct(_, _, _)
CountDistinct(rows, k, seen) ==
    IF k > Len(rows) THEN 0
    ELSE IF rows[k].id \in seen THEN CountDistinct(rows, k + 1, seen)
    ELSE 1 + CountDistinct(rows, k + 1, seen \cup {rows[k].id})

\* faulty variant: COUNT(id) without DISTINCT
num_loci_rows(db) == Len(db.term_loci)

\* SELECT COUNT(DISTINCT(id)) FROM term_loci
num_distinct_loci(db) == CountDistinct(db.term_loci, 1, {})

\* --------------------------------------------------------------- actions
NoRet == [term |-> NoTerm, n |-> 0]

Call(op, batch, id, cursor, overwrite, fault, err, ret) ==
    [op |-> op, batch |-> batch, id |-> id, cursor |-> cursor,
     overwrite |-> overwrite, fault |-> fault, err |-> err, ret |-> ret]

Now == DB(terms, term_loci, txn)

\* the caller is between two calls
Ready == Call("ready", <<>>, "", FALSE, FALSE, 0, OK, NoRet)

\* a call runs to its end on the calling thread and leaves the connection as db
Store(db) ==
    /\ terms' = db.terms
    /\ term_loci' = db.term_loci
    /\ txn' = db.txn
    /\ pre' = Now

\* A cursor is handed in exactly by a caller that began a transaction on it
\* (add_term's docstring); such a caller makes no call without it meanwhile.
CursorGiven(cursor) == cursor <=> (txn = "caller")

Init ==
    /\ terms = <<>>
    /\ term_loci = <<>>
    /\ txn = "none"
    /\ last = Call("create", <<>>, "", FALSE, FALSE, 0, OK, NoRet)
    /\ pre = DB(<<>>, <<>>, "none")

\* the value or the exception of the last call reaches the caller
Return ==
    /\ last # Ready
    /\ last' = Ready
    /\ pre' = Now
    /\ UNCHANGED <<terms, term_loci, txn>>

\* the caller's own cursor: cur.execute('BEGIN TRANSACTION')
CallerBegin ==
    /\ last = Ready
    /\ txn = "none"
    /\ Store(Begin(Now, "caller").db)
    /\ last' = Call("BEGIN", <<>>, "", TRUE, FALSE, 0, OK, NoRet)

\* the caller's own cursor: cur.execute('END TRANSACTION')
CallerEnd ==
    /\ last = Ready
    /\ txn = "caller"
    /\ Store(End(Now).db)
    /\ last' = Call("END", <<>>, "", TRUE, FALSE, 0, OK, NoRet)

AddTerm ==
    /\ last = Ready
    /\ \E t \in Terms, cursor \in BOOLEAN, overwrite \in BOOLEAN, fault \in 0..(MaxLoci + 2) :
        /\ CursorGiven(cursor)
        /\ fault <= NumStatements(t, cursor)
        /\ LET r == add_term(Now, t, cursor, overwrite, fault)
           IN  /\ Store(r.db)
               /\ last' = Call("add_term", <<t>>, t.id, cursor, overwrite, fault, r.err, NoRet)

DelTerm ==
    /\ last = Ready
    /\ \E id \in TermIds, cursor \in BOOLEAN, fault \in 0..2 :
        /\ CursorGiven(cursor)
        /\ LET r == del_term(Now, id, cursor, fault)
           IN  /\ Store(r.db)
               /\ last' = Call("del_term", <<>>, id, cursor, FALSE, fault, r.err, NoRet)

AddTerms ==
    /\ last = Ready
    /\ \E ts \in SeqsUpTo(BatchTerms, MaxBatch), overwrite \in BOOLEAN :
        /\ CursorGiven(FALSE)
        /\ LET r == add_terms(Now, ts, overwrite)
           IN  /\ Store(r.db)
               /\ last' = Call("add_terms", ts, "", FALSE, overwrite, 0, r.err, NoRet)

DelTerms ==
    /\ last = Ready
    /\ \E ids \in SeqsUpTo(TermIds, MaxBatch) :
        /\ CursorGiven(FALSE)
        /\ LET r == del_terms(Now, ids)
           IN  /\ Store(r.db)
               /\ last' = Call("del_terms", [k \in 1..Len(ids) |-> Term(ids[k], "", <<>>)],
                               "", FALSE, FALSE, 0, r.err, NoRet)

GetItem ==
    /\ last = Ready
    /\ \E id \in TermIds :
        LET g == getitem(Now, RefGenIds, id)
        IN  /\ Store(Now)
            /\ last' = Call("getitem", <<>>, id, FALSE, FALSE, 0, g.err,
                            [term |-> g.term, n |-> 0])

LenCall ==
    /\ last = Ready
    /\ Store(Now)
    /\ last' = Call("len", <<>>, "", FALSE, FALSE, 0, OK,
                    [term |-> NoTerm, n |-> len(Now)])

NumDistinctLoci ==
    /\ last = Ready
    /\ Store(Now)
    /\ last' = Call("num_distinct_loci", <<>>, "", FALSE, FALSE, 0, OK,
                    [term |-> NoTerm, n |-> num_distinct_loci(Now)])

Next ==
    \/ Return
    \/ CallerBegin
    \/ CallerEnd
    \/ AddTerm
    \/ DelTerm
    \/ AddTerms
    \/ DelTerms
    \/ GetItem
    \/ LenCall
    \/ NumDistinctLoci

Spec == Init /\ [][Next]_vars

\* ---------------------------------------------------------------- claims
Range(s) == {s[k] : k \in 1..Len(s)}
RowsOf(db, id) == SelectSeq(db.term_loci, LAMBDA r : r.term = id)
DescriptorsOf(db, id) == SelectSeq(db.terms, LAMBDA r : r.id = id)
LociIds(loci) == [k \in 1..Len(loci) |-> loci[k].id]
RowIds(rows) == [k \in 1..Len(rows) |-> rows[k].id]
Unchanged == terms = pre.terms /\ term_loci = pre.term_loci
WriteOps == {"add_term", "del_term", "add_terms", "del_terms"}
\* no transaction was left behind by an earlier call when this call was made
NoneDangling == pre.txn \in {"none", "caller"}
TheTerm == last.batch[1]

\* C1: when add_term, running its own transaction, fails after the
\* descriptor INSERT and before the last association INSERT, a following
\* get of the term's id fails as for an id that is not in the database: no
\* descriptor row and no association row of the term is visible.
C1_AddTermAtomic ==
    ( /\ last.op = "add_term"
      /\ ~last.cursor
      /\ last.err = BackendError
      /\ last.fault \in 2..(Len(TheTerm.loci) + 1) )
    => /\ getitem(Now, RefGenIds, last.id).err = TypeError
       /\ DescriptorsOf(Now, last.id) = <<>>
       /\ RowsOf(Now, last.id) = <<>>

\* C2: after a call of add_term, del_term, add_terms or del_terms that began
\* its own transaction returns or fails (no backend failure is needed: a
\* duplicate id is enough), no transaction is left open on the connection.
C2_TransactionReleased ==
    ( /\ last.op \in WriteOps
      /\ ~last.cursor
      /\ last.fault = 0
      /\ pre.txn = "none" )
    => txn = "none"

\* a term's descriptor row and exactly its association rows are stored
Landed(t) ==
    /\ DescriptorsOf(Now, t.id) = <<[id |-> t.id, desc |-> t.desc]>>
    /\ RowIds(RowsOf(Now, t.id)) = LociIds(t.loci)

\* C3: add_terms is all-or-nothing: either the rows of every input term
\* land, or both relations are what they were before the call.
C3_AddTermsAllOrNothing ==
    last.op = "add_terms"
    => \/ (last.err = OK /\ \A k \in 1..Len(last.batch) : Landed(last.batch[k]))
       \/ Unchanged

\* C4: add_term and del_term handed a cursor never end the transaction they
\* were handed, for either value of overwrite: it is still open when the call
\* returns or raises; the caller's transaction is ended by the caller's END
\* only, and the calls add_terms and del_terms make inside their transaction
\* leave it open.
C4_SuppliedTransactionStaysOpen ==
    /\ (last.op \in {"add_term", "del_term"} /\ last.cursor)
         => (pre.txn = "caller" /\ txn = "caller")
    /\ (pre.txn = "caller" /\ txn # "caller") => last.op = "END"
    /\ last = Ready =>
         /\ \A t \in Terms, o \in BOOLEAN :
              add_term([Now EXCEPT !.txn = "add_terms"], t, TRUE, o, 0).db.txn = "add_terms"
         /\ \A id \in TermIds :
              del_term([Now EXCEPT !.txn = "del_terms"], id, TRUE, 0).db.txn = "del_terms"

C4_Witness ==
    /\ last.op = "add_term"
    /\ last.cursor
    /\ last.overwrite
    /\ HasTerm(pre, last.id)
    /\ txn = "caller"

\* C5: add_term of an id that is stored, without overwrite, raises the
\* UNIQUE constraint's error and leaves both relations and len() as they
\* were. The call is made as in the claim, after an add_term of that id that
\* succeeded: the id is stored and (second conjunct) no transaction of an
\* earlier call is dangling.
C5_DuplicateInsertFails ==
    /\ ( /\ last.op = "add_term"
         /\ ~last.overwrite
         /\ last.fault = 0
         /\ HasTerm(pre, last.id)
         /\ NoneDangling )
       => /\ last.err = ConstraintError
          /\ Unchanged
          /\ len(Now) = len(pre)
    /\ (last.op = "add_term" /\ last.err = OK)
       => /\ HasTerm(Now, last.id)
          /\ txn = (IF last.cursor THEN "caller" ELSE "none")

C5_Witness ==
    /\ last.op = "add_term"
    /\ ~last.overwrite
    /\ ~last.cursor
    /\ last.fault = 0
    /\ pre.txn = "none"
    /\ HasTerm(pre, last.id)
    /\ last.err = ConstraintError

\* C6: add_term(t, overwrite=True) on a store that holds t.id succeeds and
\* leaves exactly one descriptor row of t.id, with t's description, and
\* exactly t's association rows, with its own transaction and inside a
\* transaction of the caller alike.
C6_OverwriteReplaces ==
    ( /\ last.op = "add_term"
      /\ last.overwrite
      /\ last.fault = 0
      /\ HasTerm(pre, last.id)
      /\ NoneDangling )
    => /\ last.err = OK
       /\ Landed(TheTerm)

C8_DeleteAbsentIsNoOp ==
    ( /\ last.op = "del_term"
      /\ last.fault = 0
      /\ ~HasTerm(pre, last.id)
      /\ RowsOf(pre, last.id) = <<>> )
    => /\ last.err = OK
       /\ Unchanged
       /\ len(Now) = len(pre)

\* C9: in every state every association row has a descriptor row of its
\* term; after a del_term(id) that returned, and after a del_terms that
\* returned, no descriptor row and no association row of the ids is left.
C9_AssociationsHaveDescriptor ==
    /\ \A k \in 1..Len(term_loci) : HasTerm(Now, term_loci[k].term)
    /\ (last.op = "del_term" /\ last.err = OK)
       => (DescriptorsOf(Now, last.id) = <<>> /\ RowsOf(Now, last.id) = <<>>)
    /\ (last.op = "del_terms" /\ last.err = OK)
       => \A k \in 1..Len(last.batch) :
            /\ DescriptorsOf(Now, last.batch[k].id) = <<>>
            /\ RowsOf(Now, last.batch[k].id) = <<>>

C9_Witness ==
    /\ last.op = "del_term"
    /\ last.err = OK
    /\ HasTerm(pre, last.id)
    /\ RowsOf(pre, last.id) # <<>>
    /\ term_loci # <<>>

\* C10: num_distinct_loci() is the number of distinct locus ids over the
\* stored association rows, whatever the order of the rows and however often
\* a locus id is repeated within a term or across terms.
C10_UniverseConsistency ==
    /\ num_distinct_loci(Now) = Cardinality(Range(RowIds(term_loci)))
    /\ last.op = "num_distinct_loci" =>
         /\ last.ret.n = Cardinality(Range(RowIds(term_loci)))
         /\ \A p \in Permutations(1..Len(term_loci)) :
              num_distinct_loci([Now EXCEPT !.term_loci =
                  [k \in 1..Len(term_loci) |-> term_loci[p[k]]]]) = last.ret.n

C10_Witness ==
    /\ last.op = "num_distinct_loci"
    /\ \E j, k \in 1..Len(term_loci) :
         j < k /\ term_loci[j] = term_loci[k]
    /\ \E j, k \in 1..Len(term_loci) :
         term_loci[j].term # term_loci[k].term /\ term_loci[j].id = term_loci[k].id
    /\ \E j, k \in 1..Len(term_loci) : term_loci[j].id # term_loci[k].id

\* an id occurs twice in the terms handed in
HasDuplicateId(ts) == \E j, k \in 1..Len(ts) : j < k /\ ts[j].id = ts[k].id
\* the first position whose id occurred at an earlier position
SecondOccurrence(ts) ==
    CHOOSE k \in 1..Len(ts) :
        /\ \E j \in 1..(k - 1) : ts[j].id = ts[k].id
        /\ \A m \in 1..(k - 1) : \A j \in 1..(m - 1) : ts[j].id # ts[m].id

\* C17: add_terms with overwrite handed the same id twice fails, although
\* overwrite is set. Started with no transaction open it has deleted every
\* input id in its first pass, inserted the terms in front of the second
\* occurrence in its second pass, and raises the UNIQUE constraint's error
\* at the second occurrence.
C17_DuplicateInBatchConflicts ==
    (last.op = "add_terms" /\ last.overwrite /\ HasDuplicateId(last.batch))
    => /\ last.err # OK
       /\ pre.txn = "none" =>
            LET m == SecondOccurrence(last.batch)
                ids == Range(IdsOf(last.batch))
            IN  /\ last.err = ConstraintError
                /\ terms = SelectSeq(pre.terms, LAMBDA r : r.id \notin ids)
                             \o [k \in 1..(m - 1) |->
                                   [id |-> last.batch[k].id, desc |-> last.batch[k].desc]]
                /\ \A k \in 1..(m - 1) : Landed(last.batch[k])

C17_Witness ==
    /\ last.op = "add_terms"
    /\ last.overwrite
    /\ HasDuplicateId(last.batch)
    /\ pre.txn = "none"
    /\ \E k \in 1..Len(last.batch) : HasTerm(pre, last.batch[k].id)
    /\ last.err = ConstraintError

\* ============================================================ enrichment
\* longest locus_list handed to enrichment
MaxSampled == 2
\* def enrichment(self, locus_list, pval_cutoff=0.05, max_term_size=300)
DefaultMaxTermSize == 300
\* a p-value cutoff is kept as the exact fraction n/d, d > 0
Frac(n, d) == [n |-> n, d |-> d]
DefaultPvalCutoff == Frac(1, 20)

\* locus ids of the stores enrichment runs on, in a fixed order
LocusOrder == <<"g1", "g2", "g3">>
EnrichLocusIds == Range(LocusOrder)
EnrichLoci == {Locus(g) : g \in EnrichLocusIds}
LocusRank(g) == CHOOSE i \in 1..Len(LocusOrder) : LocusOrder[i] = g
\* term.loci of the stored terms: every multiset of loci, listed in LocusOrder
StoreLoci ==
    {l \in SeqsUpTo(EnrichLoci, MaxLoci) :
        \A k \in 1..(Len(l) - 1) : LocusRank(l[k].id) <= LocusRank(l[k + 1].id)}
StoreTerms == {Term(i, "d1", l) : i \in TermIds, l \in StoreLoci}
\* iterables of terms with pairwise distinct ids, as add_terms stores them
StoreBatches ==
    {ts \in SeqsUpTo(StoreTerms, Cardinality(TermIds)) :
        \A j, k \in 1..Len(ts) : j # k => ts[j].id # ts[k].id}

\* values handed to enrichment
Cutoffs == {Frac(0, 1), DefaultPvalCutoff, Frac(1, 2), Frac(1, 1)}
MaxTermSizes == {0, 1, DefaultMaxTermSize}
\* reference genomes: one resolves every locus id, one leaves ids orphaned
RefGens == {EnrichLocusIds, RefGenIds}

\* faulty variant: a cursor that begins a transaction of its own
cursor_in_transaction(db) == [db EXCEPT !.txn = "enrichment"]

\* self.db.cursor(): a further cursor on the connection; the SELECT it
\* executes begins no transaction and writes nothing
cursor(db) == db

\* "','".join([x.id for x in locus_list]) placed into IN ('{}'): the ids the
\* IN list names, for ids without a quote character; an empty locus_list
\* leaves IN (''), which names the empty string
InList(locus_list) ==
    IF locus_list = <<>> THEN {""}
    ELSE {locus_list[k].id : k \in 1..Len(locus_list)}

\* DISTINCT(term) over rows: each term once, at its first row
RECURSIVE DistinctTerms(_, _, _)
DistinctTerms(rows, k, seen) ==
    IF k > Len(rows) THEN <<>>
    ELSE IF rows[k].term \in seen THEN DistinctTerms(rows, k + 1, seen)
    ELSE <<rows[k].term>> \o DistinctTerms(rows, k + 1, seen \cup {rows[k].term})

\* faulty variant: every term that has an association row is a candidate
AllTermNames(db, locus_list) == DistinctTerms(db.term_loci, 1, {})

\* SELECT DISTINCT(term) FROM term_loci WHERE id IN ('...')
CandidateNames(db, locus_list) ==
    DistinctTerms(SelectSeq(db.term_loci, LAMBDA r : r.id \in InList(locus_list)), 1, {})

\* term.name, the key the term is stored under
TermName(term) == term.id

\* refgen.from_ids(ids): the loci of the ids the reference genome resolves;
\* unknown ids are dropped
from_ids(rg, ids) ==
    LET known == SelectSeq(ids, LAMBDA g : Resolvable(rg, g))
    IN  [k \in 1..Len(known) |-> Resolve(known[k])]

\* term_genes = set(refgen.from_ids(SELECT id FROM term_loci WHERE term = ?))
term_genes(db, rg, term) ==
    LET rows == SelectSeq(db.term_loci, LAMBDA r : r.term = TermName(term))
    IN  Range(from_ids(rg, [k \in 1..Len(rows) |-> rows[k].id]))

\* faulty variant: no term is too large
NeverTooLarge(genes, max_term_size) == FALSE

\* if len(term_genes) > max_term_size: continue
TooLarge(genes, max_term_size) == Cardinality(genes) > max_term_size

\* len(term_genes.intersection(locus_list)); loci are equal when their ids are
NumCommon(genes, locus_list) == Cardinality(genes \cap Range(locus_list))

\* binomial coefficient a over b
RECURSIVE Binomial(_, _)
Binomial(a, b) ==
    IF b < 0 \/ b > a THEN 0
    ELSE IF b = 0 THEN 1
    ELSE (Binomial(a, b - 1) * (a - b + 1)) \div b

\* number of ways to draw N of M items, n of them successes, with j..hi successes
RECURSIVE Ways(_, _, _, _, _)
Ways(j, hi, M, n, N) ==
    IF j > hi THEN 0
    ELSE Binomial(n, j) * Binomial(M - n, N - j) + Ways(j + 1, hi, M, n, N)

Min(a, b) == IF a <= b THEN a ELSE b
Max(a, b) == IF a >= b THEN a ELSE b

\* a p-value: the exact fraction n/d, or nan
Pval(nan, n, d) == [nan |-> nan, n |-> n, d |-> d]
NaN == Pval(TRUE, 0, 1)

\* P(X >= k), X hypergeometric: N draws from M items with n successes
UpperTail(k, M, n, N) == Pval(FALSE, Ways(Max(k, 0), Min(n, N), M, n, N), Binomial(M, N))

\* scipy.stats.hypergeom.sf(k, M, n, N) = 1 - cdf(k) = P(X > k); nan when the
\* parameters fail the distribution's argument check
hypergeom_sf(k, M, n, N) ==
    IF ~(M > 0 /\ n >= 0 /\ N >= 0 /\ n <= M /\ N <= M) THEN NaN
    ELSE UpperTail(k + 1, M, n, N)

\* faulty variant: the comparison turned round
AtLeast(pval, pval_cutoff) ==
    ~pval.nan /\ pval.n * pval_cutoff.d >= pval_cutoff.n * pval.d

\* pval <= pval_cutoff; a comparison with nan is False
AtMost(pval, pval_cutoff) ==
    ~pval.nan /\ pval.n * pval_cutoff.d <= pval_cutoff.n * pval.d

\* one round of `for term in terms:` past the size check
TestTerm(db, rg, term, locus_list) ==
    LET genes == term_genes(db, rg, term)
        num_common == NumCommon(genes, locus_list)
        num_in_term == Cardinality(genes)
        num_sampled == Len(locus_list)
        num_universe == num_distinct_loci(db)
    IN  [term |-> term, num_common |-> num_common, num_in_term |-> num_in_term,
         num_sampled |-> num_sampled, num_universe |-> num_universe,
         pval |-> hypergeom_sf(num_common, num_universe, num_in_term, num_sampled)]

EnrichResult(db, err, ret, tested) ==
    [db |-> db, err |-> err, ret |-> ret, tested |-> tested]

\* enrichment: ret is significant_terms, each term with its attrs['pval'];
\* tested lists the rounds of the loop that reached hypergeom.sf
enrichment(db, rg, locus_list, pval_cutoff, max_term_size) ==
    LET c == cursor(db)
        names == CandidateNames(c, locus_list)
        gets == [k \in 1..Len(names) |-> getitem(c, rg, names[k])]
        bad == {k \in 1..Len(names) : gets[k].err # OK}
    IN  IF bad # {}
        THEN EnrichResult(c, gets[CHOOSE k \in bad : \A j \in bad : k <= j].err, <<>>, <<>>)
        ELSE LET ts == [k \in 1..Len(names) |-> gets[k].term]
                 sized == SelectSeq(ts, LAMBDA t : ~TooLarge(term_genes(c, rg, t), max_term_size))
                 tested == [k \in 1..Len(sized) |-> TestTerm(c, rg, sized[k], locus_list)]
                 sig == SelectSeq(tested, LAMBDA p : AtMost(p.pval, pval_cutoff))
             IN  EnrichResult(c, OK,
                              [k \in 1..Len(sig) |-> [term |-> sig[k].term, pval |-> sig[k].pval]],
                              tested)

EnrichCall(locus_list, pval_cutoff, max_term_size, rg, r) ==
    [op |-> "enrichment", locus_list |-> locus_list, pval_cutoff |-> pval_cutoff,
     max_term_size |-> max_term_size, refgen |-> rg,
     err |-> r.err, ret |-> r.ret, tested |-> r.tested]

\* a store filled by one add_terms on a fresh Ontology
InitEnrich ==
    \E ts \in StoreBatches :
        LET r == add_terms(DB(<<>>, <<>>, "none"), ts, FALSE)
        IN  /\ terms = r.db.terms
            /\ term_loci = r.db.term_loci
            /\ txn = r.db.txn
            /\ last = Call("add_terms", ts, "", FALSE, FALSE, 0, r.err, NoRet)
            /\ pre = DB(<<>>, <<>>, "none")

Enrich ==
    /\ last = Ready
    /\ \E locus_list \in SeqsUpTo(EnrichLoci, MaxSampled), pval_cutoff \in Cutoffs,
          max_term_size \in MaxTermSizes, rg \in RefGens :
        LET r == enrichment(Now, rg, locus_list, pval_cutoff, max_term_size)
        IN  /\ Store(r.db)
            /\ last' = EnrichCall(locus_list, pval_cutoff, max_term_size, rg, r)

NextEnrich == Enrich \/ Return

SpecEnrich == InitEnrich /\ [][NextEnrich]_vars

\* ----------------------------------------------------- enrichment claims
\* the last call was an enrichment that returned its list
Enriched == last.op = "enrichment" /\ last.err = OK
ReturnedTerms == {last.ret[k].term : k \in 1..Len(last.ret)}
TestedTerms == {last.tested[k].term : k \in 1..Len(last.tested)}

\* pval_cutoff and max_term_size are positive
PositiveArgs == last.pval_cutoff.n > 0 /\ last.max_term_size > 0
\* the parameters pass the checks the contract asks of enrich
ValidArgs ==
    /\ last.locus_list # <<>>
    /\ PositiveArgs
\* the ids stored as members of term id
Members(db, id) == {db.term_loci[k].id : k \in {j \in 1..Len(db.term_loci) : db.term_loci[j].term = id}}
ListIds == {last.locus_list[k].id : k \in 1..Len(last.locus_list)}
\* a/b <= c/d for fractions of positive denominator
FracLeq(a, b) == a.n * b.d <= b.n * a.d

\* C11: every candidate term within max_term_size whose parameters form a
\* hypergeometric distribution is in the result exactly when the probability
\* of num_common or more successes, P(X >= num_common), is at most pval_cutoff.
C11_IncludedIffOrMoreTail ==
    (Enriched /\ ValidArgs) =>
        \A k \in 1..Len(last.tested) :
            LET p == last.tested[k]
            IN  p.num_sampled <= p.num_universe =>
                    (p.term \in ReturnedTerms
                     <=> AtMost(UpperTail(p.num_common, p.num_universe,
                                          p.num_in_term, p.num_sampled),
                                last.pval_cutoff))

\* C12: enrichment of an empty locus_list, its other parameters positive,
\* fails instead of returning a list.
C12_EmptyListRejected ==
    (last.op = "enrichment" /\ last.locus_list = <<>> /\ PositiveArgs) => last.err # OK

\* C13: enrichment with a max_term_size or a pval_cutoff that is zero or
\* negative fails and returns no result.
C13_NonPositiveParameterRejected ==
    (last.op = "enrichment" /\ last.locus_list # <<>>
        /\ (last.max_term_size <= 0 \/ last.pval_cutoff.n <= 0))
    => last.err # OK

\* C14: on the same store, locus_list and max_term_size, every term returned
\* at a cutoff is returned at every cutoff that is at least as large.
C14_CutoffMonotone ==
    Enriched =>
        \A c2 \in Cutoffs :
            FracLeq(last.pval_cutoff, c2) =>
                LET r2 == enrichment(pre, last.refgen, last.locus_list, c2, last.max_term_size)
                IN  /\ r2.err = OK
                    /\ ReturnedTerms \subseteq {r2.ret[k].term : k \in 1..Len(r2.ret)}

C14_Witness ==
    /\ Enriched
    /\ last.ret # <<>>
    /\ \E c2 \in Cutoffs :
        /\ FracLeq(last.pval_cutoff, c2)
        /\ Len(enrichment(pre, last.refgen, last.locus_list, c2, last.max_term_size).ret)
             > Len(last.ret)

\* C15: a term with more than max_term_size distinct member loci is never in
\* the result, and a candidate with at most max_term_size of them, so also one
\* with exactly max_term_size, is not skipped: it reaches the test.
C15_LargeTermsExcluded ==
    Enriched =>
        /\ \A t \in ReturnedTerms :
            Cardinality(Members(pre, t.id)) <= last.max_term_size
        /\ \A id \in TermIds :
            (Members(pre, id) \cap ListIds # {}
                /\ Cardinality(Members(pre, id)) <= last.max_term_size)
            => \E t \in TestedTerms : t.id = id

C15_Witness ==
    /\ Enriched
    /\ \E id \in TermIds :
        /\ Members(pre, id) \cap ListIds # {}
        /\ Cardinality(Members(pre, id)) > last.max_term_size
    /\ \E t \in ReturnedTerms :
        Cardinality(Members(pre, t.id)) = last.max_term_size

C18_ParametersWellFormed ==
    (Enriched /\ ValidArgs) =>
        \A k \in 1..Len(last.tested) :
            LET p == last.tested[k]
            IN  /\ 0 <= p.num_common
                /\ p.num_common <= p.num_in_term
                /\ p.num_in_term <= p.num_universe
                /\ p.num_common <= p.num_sampled
                /\ p.num_sampled <= p.num_universe

\* C19: enrichment leaves the term descriptors, the association rows, the
\* term count, the distinct locus count and the connection's transaction as
\* they were before the call, whether it returns or raises.
C19_EnrichmentReadOnly ==
    last.op = "enrichment" =>
        /\ terms = pre.terms
        /\ term_loci = pre.term_loci
        /\ len(Now) = len(pre)
        /\ num_distinct_loci(Now) = num_distinct_loci(pre)
        /\ txn = pre.txn
        /\ txn = "none"

C19_Witness ==
    /\ Enriched
    /\ last.ret # <<>>
    /\ \E k \in 1..Len(last.ret) : ~last.ret[k].pval.nan
    /\ terms # <<>>
    /\ pre.txn = "none"
====
